---- MODULE Spec2Model ----
(***************************************************************************)
(* awsbs: AWS Signature Version 4 signing of an http request (src/sign.rs)  *)
(* and the lookup of the credentials (src/configs.rs).                      *)
(*                                                                          *)
(* Strings are sequences of tokens.  A token is one character wherever the  *)
(* code looks inside the text (the query string and the x-amz-date value,   *)
(* which are split), and a whole literal where the code only copies it      *)
(* (the constants of consts.rs, a host name, a key).  Option<T> is a        *)
(* sequence of at most one T.  SHA-256 and HMAC-SHA256 are uninterpreted:   *)
(* a digest is one token that holds its arguments, so two digests are      *)
(* equal exactly when their arguments are.  A token is a tuple: <<c>> for   *)
(* a character c, <<"sha256", data>> and <<"hmac", key, data>> for digests. *)
(***************************************************************************)
EXTENDS Naturals, Sequences, FiniteSets, TLC

VARIABLES
  req,      \* the http Request (kind "request") or Builder (kind "builder")
  kind,     \* "request" | "builder" | "consumed"
  pre,      \* req as it was when the last signing call started
  status,   \* outcome of the last signing call: "idle" | "ok" | "err" | "panic"
  clock,    \* the reading of the system clock, OffsetDateTime::now()
  calls,    \* the signing calls made so far, with their inputs and locals
  conf,     \* the Configuration handed to the signer
  args,     \* the other arguments of the calls: [content_type, service]
  env,      \* the process environment read by Configuration::auto
  credFile, \* Option<lines of ~/.aws/credentials>
  confFile, \* Option<lines of ~/.aws/config>
  found     \* the last lookup of a Configuration: [op, result]

vars == <<req, kind, pre, status, clock, calls, conf, args, env, credFile, confFile, found>>

signVars == <<req, kind, pre, status, clock, calls, conf, args>>

confVars == <<env, credFile, confFile, found>>

----------------------------------------------------------------------------
(* Bounds of the model. *)

\* signing calls recorded per behaviour
MaxCalls == 2

\* clock readings after the first
MaxClock == 1

\* characters of a generated raw query string
MaxQueryLen == 3

----------------------------------------------------------------------------
(* Text. *)

\* a character (or a literal copied whole) as a token
Ch(c) == <<c>>

\* the text whose tokens are the given characters
Txt(cs) == [i \in 1..Len(cs) |-> Ch(cs[i])]

None == <<>>

Some(x) == <<x>>

IsSome(o) == Len(o) > 0

Unwrap(o) == o[1]

\* Option::unwrap_or
UnwrapOr(o, d) == IF IsSome(o) THEN o[1] ELSE d

\* byte value of a character token (ASCII)
Code(c) ==
  CASE c = Ch("&") -> 38
    [] c = Ch("1") -> 49
    [] c = Ch("=") -> 61
    [] c = Ch("B") -> 66
    [] c = Ch("a") -> 97
    [] OTHER -> 127

\* str::cmp: byte-wise lexicographic order, a proper prefix first
RECURSIVE StrLess(_, _)
StrLess(s, t) ==
  IF t = <<>> THEN FALSE
  ELSE IF s = <<>> THEN TRUE
  ELSE IF Code(Head(s)) # Code(Head(t)) THEN Code(Head(s)) < Code(Head(t))
  ELSE StrLess(Tail(s), Tail(t))

\* (&str, &str)::cmp: the first component, then the second
PairLess(p, q) ==
  IF p[1] # q[1] THEN StrLess(p[1], q[1]) ELSE StrLess(p[2], q[2])

\* str::split(sep).collect(): always at least one piece, empty pieces kept
RECURSIVE SplitFrom(_, _, _, _)
SplitFrom(s, sep, i, cur) ==
  IF i > Len(s) THEN <<cur>>
  ELSE IF s[i] = sep THEN <<cur>> \o SplitFrom(s, sep, i + 1, <<>>)
  ELSE SplitFrom(s, sep, i + 1, Append(cur, s[i]))

Split(s, sep) == SplitFrom(s, sep, 1, <<>>)

\* [String]::join(sep)
RECURSIVE Join(_, _)
Join(ss, sep) ==
  IF ss = <<>> THEN <<>>
  ELSE IF Len(ss) = 1 THEN ss[1]
  ELSE ss[1] \o <<sep>> \o Join(Tail(ss), sep)

\* Iterator::nth on the pieces of a split, as an Option
Nth(ss, n) == IF n <= Len(ss) THEN Some(ss[n]) ELSE None

\* Vec::sort on (&str, &str): insertion of each element in order
RECURSIVE InsertPair(_, _)
InsertPair(p, sorted) ==
  IF sorted = <<>> THEN <<p>>
  ELSE IF PairLess(p, Head(sorted)) THEN <<p>> \o sorted
  ELSE <<Head(sorted)>> \o InsertPair(p, Tail(sorted))

RECURSIVE SortPairs(_)
SortPairs(ps) ==
  IF ps = <<>> THEN <<>> ELSE InsertPair(Head(ps), SortPairs(Tail(ps)))

----------------------------------------------------------------------------
(* consts.rs *)

AMZ_DATE == "x-amz-date"

ALGORITHM == Txt(<<"AWS4-HMAC-SHA256">>)

SIGNED_HEADERS == Txt(<<"content-type;host;x-amz-date">>)

\* the header names of http::header used by sign.rs
AUTHORIZATION == "authorization"

CONTENT_TYPE == "content-type"

HOST == "host"

----------------------------------------------------------------------------
(* sign.rs, mod internal *)

LF == Ch("\n")

\* format!("{:x}", bytes): the lower-case hex text of raw bytes
Hex(bytes) == <<(<<"hex", bytes>>)>>

\* Sha256::digest(data): the raw digest, uninterpreted
Sha256(data) == <<(<<"sha256", data>>)>>

\* format!("{:x}", Sha256::digest(data))
Sha256Hex(data) == Hex(Sha256(data))

\* the raw MAC, uninterpreted
hs256(key, data) == <<(<<"hmac", key, data>>)>>

\* the MAC formatted {:x}
hs256_hex(key, data) == Hex(hs256(key, data))

\* the canonical query string block of build_canonical_request
QueryPairs(uri) ==
  LET raw == Split(UnwrapOr(uri.query, <<>>), Ch("&"))
      pair(x) == LET parts == Split(x, Ch("="))
                 IN <<UnwrapOr(Nth(parts, 1), <<>>), UnwrapOr(Nth(parts, 2), <<>>)>>
  IN [i \in 1..Len(raw) |-> pair(raw[i])]

\* the pairs left in the order of the URI
UnsortedQueries(queries) == queries

\* queries.sort()
SortQueries(queries) == SortPairs(queries)

canonical_query_string(uri) ==
  LET queries == SortQueries(QueryPairs(uri))
  IN Join([i \in 1..Len(queries) |-> queries[i][1] \o Txt(<<"=">>) \o queries[i][2]],
          Ch("&"))

\* the canonical headers block; uri.host() is unwrapped by the caller's guard
canonical_headers(uri, dt, content_type) ==
  Txt(<<"content-type:">>) \o content_type \o <<LF>>
    \o Txt(<<"host:">>) \o Unwrap(uri.host) \o <<LF>>
    \o Txt(<<"x-amz-date:">>) \o dt \o <<LF>>

build_canonical_request(method, uri, dt, body, content_type) ==
  method \o <<LF>> \o uri.path \o <<LF>> \o canonical_query_string(uri) \o <<LF>>
    \o canonical_headers(uri, dt, content_type) \o <<LF>>
    \o SIGNED_HEADERS \o <<LF>> \o Sha256Hex(body)

build_credential_scope(date, region, service) ==
  date \o Txt(<<"/">>) \o region \o Txt(<<"/">>) \o service \o Txt(<<"/aws4_request">>)

create_string_to_sign(cr, datetime, cs) ==
  ALGORITHM \o <<LF>> \o datetime \o <<LF>> \o cs \o <<LF>> \o Sha256Hex(cr)

signed_auth_header(sign_key, aws_key, sts, cs) ==
  ALGORITHM \o Txt(<<" Credential=">>) \o aws_key \o Txt(<<"/">>) \o cs
    \o Txt(<<", SignedHeaders=">>) \o SIGNED_HEADERS
    \o Txt(<<", Signature=">>) \o hs256_hex(sign_key, sts)

\* the ladder with every intermediate MAC hex-encoded before it keys the next
derive_sign_key_hexed(c, service, date) ==
  LET k_date == hs256_hex(Txt(<<"AWS4">>) \o c.secret, date)
      k_region == hs256_hex(k_date, c.region)
      k_service == hs256_hex(k_region, service)
  IN hs256(k_service, Txt(<<"aws4_request">>))

\* the ladder as the code computes it: every intermediate MAC passed on as raw bytes
derive_sign_key(c, service, date) ==
  LET k_date == hs256(Txt(<<"AWS4">>) \o c.secret, date)
      k_region == hs256(k_date, c.region)
      k_service == hs256(k_region, service)
  IN hs256(k_service, Txt(<<"aws4_request">>))

----------------------------------------------------------------------------
(* sign.rs *)

\* datetime.split("T").next().unwrap()
DateOf(datetime) == Unwrap(Nth(Split(datetime, Ch("T")), 1))

\* uri.host().unwrap() inside build_canonical_request panics on a URI with no host
SignPanics(uri) == ~IsSome(uri.host)

create_signed_auth_header(method, uri, body, content_type, datetime, c, service) ==
  LET date == DateOf(datetime)
      derived_sign_key == derive_sign_key(c, service, date)
      cr == build_canonical_request(method, uri, datetime, body, content_type)
      cs == build_credential_scope(date, c.region, service)
      sts == create_string_to_sign(cr, datetime, cs)
  IN signed_auth_header(derived_sign_key, c.key, sts, cs)

----------------------------------------------------------------------------
(* http: HeaderMap, HeaderValue, Uri, Builder, as sign.rs uses them *)

HeaderNames == {HOST, CONTENT_TYPE, AMZ_DATE, AUTHORIZATION, "accept"}

\* a byte outside visible ASCII: legal in a HeaderValue, refused by to_str()
OBS == Ch("<0x80>")

\* HeaderMap::get: the first value stored under the name
Get(headers, name) == IF Len(headers[name]) > 0 THEN Some(headers[name][1]) ELSE None

\* HeaderMap::insert: the value replaces every value stored under the name
Insert(headers, name, value) == [headers EXCEPT ![name] = <<value>>]

\* Builder::header: HeaderMap::append, the values already stored are kept
AppendHeader(headers, name, value) == [headers EXCEPT ![name] = Append(@, value)]

\* HeaderValue::to_str succeeds
ToStrOk(value) == \A i \in 1..Len(value) : value[i] # OBS

\* HeaderValue::from_str succeeds: no control character in the text
FromStrOk(text) == \A i \in 1..Len(text) : text[i] # LF

\* OffsetDateTime::now().format("%Y%m%dT%H%M%SZ") at clock reading t
Now(t) ==
  Txt(<<"2", "0", "1", "5", "0", "8", "3", "0", "T", "1", "2", "3", "6", "0">>)
    \o <<Txt(<<"0", "1", "2", "3", "4", "5", "6", "7", "8", "9">>)[(t % 10) + 1]>>
    \o Txt(<<"Z">>)

----------------------------------------------------------------------------
(* sign.rs: the two public signing operations.  Each returns the outcome,   *)
(* the request as the call leaves it, and the locals of the call.           *)

NoLocals ==
  [datetime |-> None, content_type |-> None, host |-> None, date |-> None,
   cqs |-> None, cr |-> None, auth |-> None]

SignLocals(method, uri, body, content_type, datetime, c, service) ==
  [datetime |-> Some(datetime), content_type |-> Some(content_type),
   host |-> Some(Unwrap(uri.host)), date |-> Some(DateOf(datetime)),
   cqs |-> Some(canonical_query_string(uri)),
   cr |-> Some(build_canonical_request(method, uri, datetime, body, content_type)),
   auth |-> Some(create_signed_auth_header(method, uri, body, content_type,
                                           datetime, c, service))]

\* the clock reading taken as the datetime, whatever the request carries
PreparedDatetimeFromClock(r) == Some(Now(clock))

\* the datetime sign_prepared signs: the x-amz-date header of the request
PreparedDatetime(r) == Get(r.headers, AMZ_DATE)

\* the header value stored after the values already there
StoreAuthAppend(headers, hv) == AppendHeader(headers, AUTHORIZATION, hv)

\* how sign_prepared stores the header value: it replaces the values already there
StoreAuth(headers, hv) == Insert(headers, AUTHORIZATION, hv)

sign_prepared(r, c, service) ==
  LET dt == PreparedDatetime(r)
      ct == Get(r.headers, CONTENT_TYPE)
      panic == [outcome |-> "panic", req |-> r, locals |-> NoLocals]
  IN IF ~IsSome(dt) \/ ~ToStrOk(Unwrap(dt)) THEN panic
     ELSE IF ~IsSome(ct) \/ ~ToStrOk(Unwrap(ct)) THEN panic
     ELSE IF SignPanics(r.uri) THEN panic
     ELSE LET l == SignLocals(r.method, r.uri, r.body, Unwrap(ct), Unwrap(dt), c, service)
          IN IF ~FromStrOk(Unwrap(l.auth)) THEN panic
             ELSE [outcome |-> "ok",
                   req |-> [r EXCEPT !.headers = StoreAuth(@, Unwrap(l.auth))],
                   locals |-> l]

\* the headers Builder::sign appends, in order
SignedBuilderHeaders(headers, host, content_type, datetime, auth) ==
  AppendHeader(AppendHeader(AppendHeader(AppendHeader(headers,
    HOST, host), CONTENT_TYPE, content_type), AMZ_DATE, datetime), AUTHORIZATION, auth)

\* SignSupported::sign for Builder; b.err is a Builder that already holds an error
sign(b, body, content_type, c, service) ==
  LET datetime == Now(clock)
      panic == [outcome |-> "panic", req |-> b, locals |-> NoLocals]
  IN IF b.err \/ ~IsSome(b.uri.host) THEN panic
     ELSE LET l == SignLocals(b.method, b.uri, body, content_type, datetime, c, service)
          IN IF ~FromStrOk(content_type) \/ ~FromStrOk(Unwrap(l.auth))
             THEN [outcome |-> "err", req |-> b, locals |-> l]
             ELSE [outcome |-> "ok",
                   req |-> [b EXCEPT !.headers =
                              SignedBuilderHeaders(@, Unwrap(b.uri.host), content_type,
                                                   datetime, Unwrap(l.auth)),
                            !.body = body],
                   locals |-> l]

----------------------------------------------------------------------------
(* configs.rs.  A file is a sequence of lines, a line a text whose tokens    *)
(* are '[', ']', '=', ' ' and the words between them.  A Result is an        *)
(* Option: Some(value) for Ok, None for Err.                                 *)

CRED_KEY == Txt(<<"aws_access_key_id">>)

CRED_SECRET == Txt(<<"aws_secret_access_key">>)

CONF_REGION == Txt(<<"region">>)

EnvNames ==
  {"AWS_DEFAULT_REGION", "AWS_ACCESS_KEY_ID", "AWS_SECRET_ACCESS_KEY", "AWS_PROFILE", "HOME"}

\* std::env::var(name) on the environment e
var(e, name) == e[name]

\* str::trim: the white space at both ends removed
RECURSIVE TrimStart(_)
TrimStart(s) == IF s # <<>> /\ Head(s) = Ch(" ") THEN TrimStart(Tail(s)) ELSE s

RECURSIVE TrimEnd(_)
TrimEnd(s) ==
  IF s # <<>> /\ s[Len(s)] = Ch(" ") THEN TrimEnd(SubSeq(s, 1, Len(s) - 1)) ELSE s

Trim(s) == TrimEnd(TrimStart(s))

\* line.starts_with("[")
IsHeader(line) == line # <<>> /\ Head(line) = Ch("[")

\* line.split("=").map(|x| x.trim()).collect()
LineParts(line) ==
  LET ps == Split(line, Ch("=")) IN [i \in 1..Len(ps) |-> Trim(ps[i])]

\* the match on lp[..]: the value of a line [name, val] for one of the names
SetField(vals, names, line) ==
  LET lp == LineParts(line)
  IN IF Len(lp) = 2 /\ lp[1] \in names THEN [vals EXCEPT ![lp[1]] = Some(lp[2])] ELSE vals

\* the loop over the lines of a file, from line i on: the first section headed
\* profile_line, up to the next header
RECURSIVE ScanLines(_, _, _, _, _, _)
ScanLines(lines, i, profile_line, names, profile_found, vals) ==
  IF i > Len(lines) THEN [profile_found |-> profile_found, vals |-> vals]
  ELSE IF IsHeader(lines[i]) /\ profile_found
    THEN [profile_found |-> profile_found, vals |-> vals]
  ELSE IF IsHeader(lines[i]) /\ lines[i] = profile_line
    THEN ScanLines(lines, i + 1, profile_line, names, TRUE, vals)
  ELSE IF profile_found
    THEN ScanLines(lines, i + 1, profile_line, names, TRUE, SetField(vals, names, lines[i]))
  ELSE ScanLines(lines, i + 1, profile_line, names, FALSE, vals)

ScanFile(lines, profile_line, names) ==
  ScanLines(lines, 1, profile_line, names, FALSE, [n \in names |-> None])

\* paths(): Err when HOME is not set
paths(e) == var(e, "HOME")

\* the section header of a profile in the credentials and in the config file
CredProfileLine(profile) == Txt(<<"[">>) \o profile \o Txt(<<"]">>)

ConfProfileLine(profile) ==
  IF profile = Txt(<<"default">>) THEN Txt(<<"[", "default", "]">>)
  ELSE Txt(<<"[", "profile", " ">>) \o profile \o Txt(<<"]">>)

\* Configuration::from_profile_static
from_profile_static(e, cred, config, profile) ==
  IF ~IsSome(paths(e)) \/ ~IsSome(cred) THEN None
  ELSE LET c == ScanFile(Unwrap(cred), CredProfileLine(profile), {CRED_KEY, CRED_SECRET})
       IN IF ~c.profile_found \/ ~IsSome(config) THEN None
          ELSE LET r == ScanFile(Unwrap(config), ConfProfileLine(profile), {CONF_REGION})
               IN IF ~r.profile_found THEN None
                  ELSE IF ~IsSome(r.vals[CONF_REGION]) \/ ~IsSome(c.vals[CRED_KEY])
                          \/ ~IsSome(c.vals[CRED_SECRET]) THEN None
                  ELSE Some([region |-> Unwrap(r.vals[CONF_REGION]),
                             key |-> Unwrap(c.vals[CRED_KEY]),
                             secret |-> Unwrap(c.vals[CRED_SECRET])])

\* Configuration::from_env
from_env(e) ==
  IF IsSome(var(e, "AWS_DEFAULT_REGION")) /\ IsSome(var(e, "AWS_ACCESS_KEY_ID"))
       /\ IsSome(var(e, "AWS_SECRET_ACCESS_KEY"))
  THEN Some([region |-> Unwrap(var(e, "AWS_DEFAULT_REGION")),
             key |-> Unwrap(var(e, "AWS_ACCESS_KEY_ID")),
             secret |-> Unwrap(var(e, "AWS_SECRET_ACCESS_KEY"))])
  ELSE None

\* Configuration::from_profile_env
from_profile_env(e, cred, config) ==
  IF IsSome(var(e, "AWS_PROFILE"))
  THEN from_profile_static(e, cred, config, Unwrap(var(e, "AWS_PROFILE")))
  ELSE None

\* the lookup with the profiles tried before the environment
auto_profiles_first(e, cred, config) ==
  IF IsSome(from_profile_env(e, cred, config)) THEN from_profile_env(e, cred, config)
  ELSE IF IsSome(from_profile_static(e, cred, config, Txt(<<"default">>)))
    THEN from_profile_static(e, cred, config, Txt(<<"default">>))
  ELSE from_env(e)

\* Configuration::auto
auto(e, cred, config) ==
  IF IsSome(from_env(e)) THEN from_env(e)
  ELSE IF IsSome(from_profile_env(e, cred, config)) THEN from_profile_env(e, cred, config)
  ELSE IF IsSome(from_profile_static(e, cred, config, Txt(<<"default">>)))
    THEN from_profile_static(e, cred, config, Txt(<<"default">>))
  ELSE None

----------------------------------------------------------------------------
(* The inputs the behaviours start from. *)

HostName == Txt(<<"iam.amazonaws.com">>)

Port == Txt(<<"8443">>)

HostAndPort == HostName \o Txt(<<":">>) \o Port

CT_VALUE == Txt(<<"application/x-www-form-urlencoded; charset=utf-8">>)

GoodDate ==
  Txt(<<"2", "0", "1", "5", "0", "8", "3", "0", "T", "1", "2", "3", "6", "0", "0", "Z">>)

\* x-amz-date values that are no timestamp: no 'T', a short date, nothing
NoTDate == Txt(<<"2", "0", "1", "5", "0", "8", "3", "0">>)

ShortDate == Txt(<<"2", "0", "1", "5", "T", "1", "2", "3", "6", "0", "0", "Z">>)

GoodConf ==
  [region |-> Txt(<<"us-east-1">>), key |-> Txt(<<"AKIDEXAMPLE">>),
   secret |-> Txt(<<"wJalrXUtnFEMI/K7MDENG+bPxRfiCYEXAMPLEKEY">>)]

\* a Configuration whose access key holds a line break
BrokenConf == [GoodConf EXCEPT !.key = Txt(<<"AKID">>) \o <<LF>>]

Services == {Txt(<<"iam">>), Txt(<<"s3">>)}

\* the content_type arguments given to Builder::sign
ContentTypeArgs == {CT_VALUE, Txt(<<"text/plain">>) \o <<LF>>}

QueryChars == {Ch("a"), Ch("B"), Ch("="), Ch("&")}

\* every raw query string of at most MaxQueryLen characters
RawQueries == UNION {[1..n -> QueryChars] : n \in 0..MaxQueryLen}

NoHeaders == [n \in HeaderNames |-> <<>>]

PreparedHeaders ==
  [NoHeaders EXCEPT ![HOST] = <<HostName>>, ![CONTENT_TYPE] = <<CT_VALUE>>,
                    ![AMZ_DATE] = <<GoodDate>>, !["accept"] = <<Txt(<<"*/*">>)>>]

\* header maps: the prepared headers with the Host and Authorization values varied,
\* or with the content-type or the x-amz-date absent or malformed
HeaderMaps ==
  {[PreparedHeaders EXCEPT ![HOST] = h, ![AUTHORIZATION] = a] :
     h \in {<<>>, <<HostName>>, <<HostAndPort>>},
     a \in {<<>>, <<Txt(<<"Basic old">>)>>}}
  \cup {[PreparedHeaders EXCEPT ![CONTENT_TYPE] = ct] : ct \in {<<>>, <<<<OBS>>>>}}
  \cup {[PreparedHeaders EXCEPT ![AMZ_DATE] = d] :
          d \in {<<>>, <<NoTDate>>, <<ShortDate>>, <<<<>>>>, <<<<OBS>>>>}}

\* a Uri; a Builder that was given none holds "/", which has no host
Uris(queries) ==
  {[host |-> hp[1], port |-> hp[2], path |-> Txt(<<"/">>), query |-> q] :
     hp \in {<<None, None>>, <<Some(HostName), None>>, <<Some(HostName), Some(Port)>>},
     q \in queries}

----------------------------------------------------------------------------
(* The signing calls as actions. *)

CallRecord(op, input, r) ==
  [op |-> op, input |-> input, conf |-> conf, args |-> args,
   now |-> clock, outcome |-> r.outcome, locals |-> r.locals]

\* sign_prepared(&mut req, &conf, service)
SignPrepared ==
  /\ kind = "request"
  /\ status # "panic"
  /\ Len(calls) < MaxCalls
  /\ LET r == sign_prepared(req, conf, args.service)
     IN /\ req' = r.req
        /\ status' = r.outcome
        /\ calls' = Append(calls, CallRecord("sign_prepared", req, r))
  /\ pre' = req
  /\ UNCHANGED <<kind, clock, conf, args, confVars>>

\* builder.sign(body, content_type, &conf, service): the Builder is consumed
BuilderSign ==
  /\ kind = "builder"
  /\ status # "panic"
  /\ Len(calls) < MaxCalls
  /\ LET r == sign(req, req.body, args.content_type, conf, args.service)
     IN /\ req' = r.req
        /\ status' = r.outcome
        /\ kind' = IF r.outcome = "ok" THEN "request" ELSE "consumed"
        /\ calls' = Append(calls, CallRecord("sign", req, r))
  /\ pre' = req
  /\ UNCHANGED <<clock, conf, args, confVars>>

\* time passes
Tick ==
  /\ clock < MaxClock
  /\ clock' = clock + 1
  /\ UNCHANGED <<req, kind, pre, status, calls, conf, args, confVars>>

\* the caller builds the Builder of the last call once more
Rebuild ==
  /\ status \in {"ok", "err"}
  /\ Len(calls) > 0
  /\ calls[Len(calls)].op = "sign"
  /\ req' = pre
  /\ kind' = "builder"
  /\ status' = "idle"
  /\ UNCHANGED <<pre, clock, calls, conf, args, confVars>>

\* the raw query with the '&'-separated pairs i and i+1 exchanged
SwapPairs(q, i) ==
  LET ps == Split(q, Ch("&"))
  IN Join([k \in 1..Len(ps) |-> IF k = i THEN ps[i + 1]
                                 ELSE IF k = i + 1 THEN ps[i] ELSE ps[k]], Ch("&"))

\* the caller re-orders the query pairs of the URI
PermuteQuery ==
  /\ kind \in {"request", "builder"}
  /\ status # "panic"
  /\ IsSome(req.uri.query)
  /\ \E i \in 1..(Len(Split(Unwrap(req.uri.query), Ch("&"))) - 1) :
       /\ SwapPairs(Unwrap(req.uri.query), i) # Unwrap(req.uri.query)
       /\ req' = [req EXCEPT !.uri.query = Some(SwapPairs(Unwrap(req.uri.query), i))]
  /\ UNCHANGED <<kind, pre, status, clock, calls, conf, args, confVars>>

NextSign == SignPrepared \/ BuilderSign \/ Tick \/ Rebuild

NextQuery == SignPrepared \/ PermuteQuery

NoEnv == [v \in EnvNames |-> None]

InitIdle ==
  /\ status = "idle"
  /\ clock = 0
  /\ calls = <<>>
  /\ pre = req
  /\ env = NoEnv
  /\ credFile = None
  /\ confFile = None
  /\ found = [op |-> "none", result |-> None]

\* requests and builders with every shape of the three signed headers
Init ==
  /\ kind \in {"request", "builder"}
  /\ req \in [method : {Txt(<<"GET">>)}, uri : Uris({Some(Txt(<<"a", "=", "1">>))}),
              headers : HeaderMaps, body : {Txt(<<"{}">>)},
              err : IF kind = "builder" THEN BOOLEAN ELSE {FALSE}]
  /\ conf \in {GoodConf, BrokenConf}
  /\ args \in [content_type : ContentTypeArgs, service : Services]
  /\ InitIdle

Spec == Init /\ [][NextSign]_vars

\* prepared requests with every raw query string
InitQuery ==
  /\ kind = "request"
  /\ req \in [method : {Txt(<<"GET">>)},
              uri : {[host |-> Some(HostName), port |-> None, path |-> Txt(<<"/">>), query |-> q] :
                       q \in {None} \cup {Some(x) : x \in RawQueries}},
              headers : {PreparedHeaders}, body : {<<>>}, err : {FALSE}]
  /\ conf = GoodConf
  /\ args = [content_type |-> CT_VALUE, service |-> Txt(<<"iam">>)]
  /\ InitIdle

SpecQuery == InitQuery /\ [][NextQuery]_vars

----------------------------------------------------------------------------
(* The lookups of a Configuration as actions, and the inputs they start from. *)

Default == Txt(<<"default">>)

Dev == Txt(<<"dev">>)

Profiles == {Dev, Default}

\* the values a source holds, each naming its source
KeyOf(profile) == Txt(<<"key-of-">>) \o profile

SecretOf(profile) == Txt(<<"secret-of-">>) \o profile

RegionOf(profile) == Txt(<<"region-of-">>) \o profile

EnvConf ==
  [region |-> Txt(<<"env-region">>), key |-> Txt(<<"env-key">>),
   secret |-> Txt(<<"env-secret">>)]

KeyLine(profile) == CRED_KEY \o Txt(<<" ", "=", " ">>) \o KeyOf(profile)

SecretLine(profile) == CRED_SECRET \o Txt(<<"=">>) \o SecretOf(profile)

\* the section of a profile in ~/.aws/credentials: not there, without the secret,
\* complete, or complete among lines that are no key = value pair
CredSections(profile) ==
  {<<>>,
   <<CredProfileLine(profile), KeyLine(profile)>>,
   <<CredProfileLine(profile), KeyLine(profile), SecretLine(profile)>>,
   <<CredProfileLine(profile), CRED_KEY \o Txt(<<"=", "a", "=", "b">>), KeyLine(profile),
     <<>>, SecretLine(profile), Txt(<<"#", " ", "note">>)>>}

\* the section of a profile in ~/.aws/config: not there, without a region, complete
ConfSections(profile) ==
  {<<>>,
   <<ConfProfileLine(profile)>>,
   <<ConfProfileLine(profile), CONF_REGION \o Txt(<<" ", "=", " ">>) \o RegionOf(profile)>>}

CredFiles == {None} \cup {Some(a \o b) : a \in CredSections(Dev), b \in CredSections(Default)}

ConfFiles == {None} \cup {Some(a \o b) : a \in ConfSections(Dev), b \in ConfSections(Default)}

Environments ==
  {[v \in EnvNames |->
      CASE v = "AWS_DEFAULT_REGION" -> IF r THEN Some(EnvConf.region) ELSE None
        [] v = "AWS_ACCESS_KEY_ID" -> IF k THEN Some(EnvConf.key) ELSE None
        [] v = "AWS_SECRET_ACCESS_KEY" -> IF x THEN Some(EnvConf.secret) ELSE None
        [] v = "AWS_PROFILE" -> p
        [] OTHER -> IF h THEN Some(Txt(<<"/home/u">>)) ELSE None] :
     r \in BOOLEAN, k \in BOOLEAN, x \in BOOLEAN, h \in BOOLEAN,
     p \in {None, Some(Dev), Some(Default)}}

Auto ==
  /\ found' = [op |-> "auto", result |-> auto(env, credFile, confFile)]
  /\ UNCHANGED <<env, credFile, confFile, signVars>>

FromEnv ==
  /\ found' = [op |-> "from_env", result |-> from_env(env)]
  /\ UNCHANGED <<env, credFile, confFile, signVars>>

FromProfileEnv ==
  /\ found' = [op |-> "from_profile_env",
               result |-> from_profile_env(env, credFile, confFile)]
  /\ UNCHANGED <<env, credFile, confFile, signVars>>

FromProfileStatic ==
  /\ \E profile \in Profiles :
       found' = [op |-> "from_profile_static",
                 result |-> from_profile_static(env, credFile, confFile, profile)]
  /\ UNCHANGED <<env, credFile, confFile, signVars>>

NextConf == Auto \/ FromEnv \/ FromProfileEnv \/ FromProfileStatic

\* every environment with every pair of files; no request is being signed
InitConf ==
  /\ env \in Environments
  /\ credFile \in CredFiles
  /\ confFile \in ConfFiles
  /\ found = [op |-> "none", result |-> None]
  /\ kind = "consumed"
  /\ req = [method |-> Txt(<<"GET">>),
            uri |-> [host |-> None, port |-> None, path |-> Txt(<<"/">>), query |-> None],
            headers |-> NoHeaders, body |-> <<>>, err |-> FALSE]
  /\ pre = req
  /\ status = "idle"
  /\ clock = 0
  /\ calls = <<>>
  /\ conf = GoodConf
  /\ args = [content_type |-> CT_VALUE, service |-> Txt(<<"iam">>)]

SpecConf == InitConf /\ [][NextConf]_vars

----------------------------------------------------------------------------
(* Claims about the signer. *)

CallIds == 1..Len(calls)

LastCall == calls[Len(calls)]

\* the content-type a call was given: the argument of sign, the header of sign_prepared
GivenContentType(c) ==
  IF c.op = "sign" THEN Some(c.args.content_type) ELSE Get(c.input.headers, CONTENT_TYPE)

\* the reference value of the Authorization header, written out from the formula
RefAuthorization(amz_date, canonical_request, c, service) ==
  LET HMAC(key, data) == hs256(key, data)
      tpos == IF \E i \in 1..Len(amz_date) : amz_date[i] = Ch("T")
              THEN CHOOSE i \in 1..Len(amz_date) :
                     amz_date[i] = Ch("T") /\ \A j \in 1..(i - 1) : amz_date[j] # Ch("T")
              ELSE Len(amz_date) + 1
      date == SubSeq(amz_date, 1, tpos - 1)
      scope ==
        date \o Txt(<<"/">>) \o c.region \o Txt(<<"/">>) \o service \o Txt(<<"/aws4_request">>)
      k_signing ==
        HMAC(HMAC(HMAC(HMAC(Txt(<<"AWS4">>) \o c.secret, date), c.region), service),
             Txt(<<"aws4_request">>))
      string_to_sign ==
        Txt(<<"AWS4-HMAC-SHA256", "\n">>) \o amz_date \o Txt(<<"\n">>) \o scope \o Txt(<<"\n">>)
          \o Hex(Sha256(canonical_request))
  IN Txt(<<"AWS4-HMAC-SHA256", " Credential=">>) \o c.key \o Txt(<<"/">>) \o scope
       \o Txt(<<", SignedHeaders=", "content-type;host;x-amz-date", ", Signature=">>)
       \o Hex(HMAC(k_signing, string_to_sign))

\* C1: every Authorization value create_signed_auth_header produces equals the
\* reference formula over the raw-byte key ladder, and sign_prepared stores that
\* value as the request's Authorization header.
C1_AuthorizationIsReference ==
  /\ \A i \in CallIds :
       IsSome(calls[i].locals.auth) =>
         Unwrap(calls[i].locals.auth) =
           RefAuthorization(Unwrap(calls[i].locals.datetime), Unwrap(calls[i].locals.cr),
                            calls[i].conf, calls[i].args.service)
  /\ (status = "ok" /\ LastCall.op = "sign_prepared") =>
       req.headers[AUTHORIZATION] =
         <<RefAuthorization(Unwrap(Get(pre.headers, AMZ_DATE)), Unwrap(LastCall.locals.cr),
                            conf, args.service)>>

\* a sign_prepared call has stored an Authorization header
C1_Witness ==
  /\ status = "ok"
  /\ LastCall.op = "sign_prepared"
  /\ LastCall.locals.datetime = Some(GoodDate)
  /\ Get(req.headers, AUTHORIZATION) = LastCall.locals.auth

\* the number of pieces of ps equal to x
Count(ps, x) == Cardinality({k \in 1..Len(ps) : ps[k] = x})

\* two raw queries differ only by a permutation of their '&'-separated pairs
PermutedQueries(q1, q2) ==
  LET p1 == Split(q1, Ch("&"))
      p2 == Split(q2, Ch("&"))
  IN /\ Len(p1) = Len(p2)
     /\ \A k \in 1..Len(p1) : Count(p1, p1[k]) = Count(p2, p1[k])

\* two calls whose inputs agree except for the order of the query pairs
SameButQueryOrder(a, b) ==
  /\ a.op = b.op
  /\ a.conf = b.conf
  /\ a.args = b.args
  /\ a.op = "sign" => a.now = b.now
  /\ [a.input EXCEPT !.uri.query = None, !.headers[AUTHORIZATION] = <<>>]
       = [b.input EXCEPT !.uri.query = None, !.headers[AUTHORIZATION] = <<>>]
  /\ IsSome(a.input.uri.query)
  /\ IsSome(b.input.uri.query)
  /\ PermutedQueries(Unwrap(a.input.uri.query), Unwrap(b.input.uri.query))

\* C2: two calls whose URIs differ only by a permutation of the query pairs build
\* the same canonical request and the same Authorization value.
C2_QueryOrderIndependent ==
  \A i \in CallIds, j \in CallIds :
    SameButQueryOrder(calls[i], calls[j]) =>
      /\ calls[i].outcome = calls[j].outcome
      /\ calls[i].locals.cr = calls[j].locals.cr
      /\ calls[i].locals.auth = calls[j].locals.auth

\* two successful sign_prepared calls on differently ordered queries
C2_Witness ==
  \E i \in CallIds, j \in CallIds :
    /\ SameButQueryOrder(calls[i], calls[j])
    /\ calls[i].op = "sign_prepared"
    /\ calls[i].outcome = "ok"
    /\ calls[i].input.uri.query # calls[j].input.uri.query
    /\ Len(Unwrap(calls[i].locals.cqs)) > 3

\* two calls given the same method, URI, body, content-type, credentials and service
\* (and, for sign_prepared, the same x-amz-date header: its timestamp is an input)
SameInputs(a, b) ==
  /\ a.op = b.op
  /\ a.input.method = b.input.method
  /\ a.input.uri = b.input.uri
  /\ a.input.body = b.input.body
  /\ a.input.err = b.input.err
  /\ GivenContentType(a) = GivenContentType(b)
  /\ a.conf = b.conf
  /\ a.args.service = b.args.service
  /\ a.op = "sign_prepared" =>
       Get(a.input.headers, AMZ_DATE) = Get(b.input.headers, AMZ_DATE)

SameResult(a, b) == a.outcome = b.outcome /\ a.locals.auth = b.locals.auth

\* C3 as stated: two calls of the same public signing operation on the same inputs
\* return the same Authorization value.
C3_Deterministic ==
  \A i \in CallIds, j \in CallIds :
    SameInputs(calls[i], calls[j]) => SameResult(calls[i], calls[j])

\* C3 as amended: sign_prepared is a function of its inputs; Builder::sign is a
\* function of its inputs and of the clock reading it samples.
C3_DeterministicGivenClock ==
  \A i \in CallIds, j \in CallIds :
    (SameInputs(calls[i], calls[j])
       /\ (calls[i].op = "sign" => calls[i].now = calls[j].now))
      => SameResult(calls[i], calls[j])

\* the same prepared request signed twice at different clock readings
C3_Witness ==
  /\ Len(calls) = 2
  /\ SameInputs(calls[1], calls[2])
  /\ calls[1].op = "sign_prepared"
  /\ calls[1].now # calls[2].now
  /\ calls[1].outcome = "ok"
  /\ calls[2].outcome = "ok"

\* C4: no signing call panics.
C4_NeverPanics == status # "panic"

\* C6: a URI with no query string, or an empty one, gives an empty canonical query
\* string.
C6_NoQueryGivesEmpty ==
  \A i \in CallIds :
    (UnwrapOr(calls[i].input.uri.query, <<>>) = <<>> /\ IsSome(calls[i].locals.cqs))
      => Unwrap(calls[i].locals.cqs) = <<>>

\* the text of s from the first occurrence of sep on, sep left out (empty if none)
RECURSIVE AfterFirst(_, _)
AfterFirst(s, sep) ==
  IF s = <<>> THEN <<>>
  ELSE IF Head(s) = sep THEN Tail(s)
  ELSE AfterFirst(Tail(s), sep)

\* the canonical query string as C7 describes it: each pair split on its first '='
RefCanonicalQuery(raw) ==
  LET ps == Split(raw, Ch("&"))
      pairs == [k \in 1..Len(ps) |->
                  <<Head(Split(ps[k], Ch("="))), AfterFirst(ps[k], Ch("="))>>]
      sorted == SortPairs(pairs)
  IN Join([k \in 1..Len(sorted) |-> sorted[k][1] \o Txt(<<"=">>) \o sorted[k][2]], Ch("&"))

\* C7: the canonical query string is the pairs, each split on its first '=' only,
\* sorted by (key, value) and rejoined; nothing of a value is dropped.
C7_SplitOnFirstEquals ==
  \A i \in CallIds :
    IsSome(calls[i].locals.cqs) =>
      Unwrap(calls[i].locals.cqs) =
        RefCanonicalQuery(UnwrapOr(calls[i].input.uri.query, <<>>))

\* an x-amz-date value that splits on 'T' into an 8-character date prefix
ValidTimestamp(amz_date) ==
  /\ \E k \in 1..Len(amz_date) : amz_date[k] = Ch("T")
  /\ Len(Head(Split(amz_date, Ch("T")))) = 8

\* C8: signing fails, and yields no header, when the x-amz-date value has no
\* 8-character date prefix before a 'T'; a header is produced only with the date
\* amz_date[0..8].
C8_InvalidTimestampFails ==
  \A i \in CallIds :
    IsSome(calls[i].locals.datetime) =>
      IF ValidTimestamp(Unwrap(calls[i].locals.datetime))
      THEN calls[i].outcome = "ok" =>
             calls[i].locals.date = Some(SubSeq(Unwrap(calls[i].locals.datetime), 1, 8))
      ELSE calls[i].outcome = "err"

\* the values a header name carries, other than those named in names
OtherHeaders(headers, names) == [n \in HeaderNames \ names |-> headers[n]]

\* C9 as stated: a successful signing call leaves method, URI, body and every header
\* but Authorization as they were, and the request carries one Authorization value.
C9_OnlyAuthorizationWritten ==
  status = "ok" =>
    /\ req.method = pre.method
    /\ req.uri = pre.uri
    /\ req.body = pre.body
    /\ OtherHeaders(req.headers, {AUTHORIZATION}) = OtherHeaders(pre.headers, {AUTHORIZATION})
    /\ Len(req.headers[AUTHORIZATION]) = 1

\* C9 as amended: that holds of sign_prepared; Builder::sign keeps method and URI,
\* takes the body it is given, and appends one value to each of host, content-type,
\* x-amz-date and Authorization, after the values the Builder already carried.
C9_FrameOfEachOperation ==
  status = "ok" =>
    /\ req.method = pre.method
    /\ req.uri = pre.uri
    /\ req.body = pre.body
    /\ IF LastCall.op = "sign_prepared"
       THEN /\ OtherHeaders(req.headers, {AUTHORIZATION})
                 = OtherHeaders(pre.headers, {AUTHORIZATION})
            /\ req.headers[AUTHORIZATION] = <<Unwrap(LastCall.locals.auth)>>
       ELSE /\ OtherHeaders(req.headers, {HOST, CONTENT_TYPE, AMZ_DATE, AUTHORIZATION})
                 = OtherHeaders(pre.headers, {HOST, CONTENT_TYPE, AMZ_DATE, AUTHORIZATION})
            /\ req.headers[HOST] = Append(pre.headers[HOST], Unwrap(pre.uri.host))
            /\ req.headers[CONTENT_TYPE] = Append(pre.headers[CONTENT_TYPE], args.content_type)
            /\ req.headers[AMZ_DATE] = Append(pre.headers[AMZ_DATE], Now(LastCall.now))
            /\ req.headers[AUTHORIZATION]
                 = Append(pre.headers[AUTHORIZATION], Unwrap(LastCall.locals.auth))

\* sign_prepared has replaced an Authorization value the request carried before
C9_Witness ==
  /\ status = "ok"
  /\ LastCall.op = "sign_prepared"
  /\ Len(pre.headers[AUTHORIZATION]) = 1
  /\ Len(pre.headers[HOST]) = 1
  /\ req.headers[AUTHORIZATION] # pre.headers[AUTHORIZATION]

\* the authority of a URI: its host, with the port when the URI names one
Authority(uri) ==
  IF IsSome(uri.port) THEN Unwrap(uri.host) \o Txt(<<":">>) \o Unwrap(uri.port)
  ELSE Unwrap(uri.host)

\* a request prepared as sign_prepared asks: its Host header is filled from its URI
Prepared(r) == r.headers[HOST] = <<Authority(r.uri)>>

\* C10: after a successful signing call the content-type, host and x-amz-date values
\* signed into the canonical headers are the values the request carries (of
\* sign_prepared, on a request whose Host header was filled from its URI).
C10_SignedHeadersAreSent ==
  (status = "ok" /\ (LastCall.op = "sign_prepared" => Prepared(pre))) =>
    /\ req.headers[CONTENT_TYPE] = <<Unwrap(LastCall.locals.content_type)>>
    /\ req.headers[HOST] = <<Unwrap(LastCall.locals.host)>>
    /\ req.headers[AMZ_DATE] = <<Unwrap(LastCall.locals.datetime)>>

----------------------------------------------------------------------------
(* Claims about the lookup of the credentials. *)

\* the three sources, in the order of precedence
EnvResolves == \A v \in {"AWS_DEFAULT_REGION", "AWS_ACCESS_KEY_ID", "AWS_SECRET_ACCESS_KEY"} :
  IsSome(env[v])

NamedProfile == from_profile_env(env, credFile, confFile)

DefaultProfile == from_profile_static(env, credFile, confFile, Default)

\* the values that come from one source
FromOneSource(c) ==
  \/ c = EnvConf
  \/ \E p \in Profiles : c = [region |-> RegionOf(p), key |-> KeyOf(p), secret |-> SecretOf(p)]

\* C5: Configuration::auto returns the environment's triple when the environment
\* resolves, else the AWS_PROFILE profile's when that resolves, else the default
\* profile's; it fails only if all three fail; the triple comes from one source.
C5_Precedence ==
  found.op = "auto" =>
    /\ EnvResolves => found.result = Some(EnvConf)
    /\ (~EnvResolves /\ IsSome(NamedProfile)) => found.result = NamedProfile
    /\ (~EnvResolves /\ ~IsSome(NamedProfile)) => found.result = DefaultProfile
    /\ ~IsSome(found.result) =>
         (~EnvResolves /\ ~IsSome(NamedProfile) /\ ~IsSome(DefaultProfile))
    /\ IsSome(found.result) => FromOneSource(Unwrap(found.result))
    /\ (IsSome(found.result) /\ ~EnvResolves /\ env["AWS_PROFILE"] = Some(Dev)
          /\ IsSome(NamedProfile)) => Unwrap(found.result).key = KeyOf(Dev)

\* the environment wins over two profiles that both resolve
C5_Witness ==
  /\ found.op = "auto"
  /\ EnvResolves
  /\ env["AWS_PROFILE"] = Some(Dev)
  /\ IsSome(NamedProfile)
  /\ IsSome(DefaultProfile)
  /\ found.result = Some(EnvConf)

====
